---- MODULE Spec2Model ----
(***************************************************************************)
(* A model of the S3 adapter of src/src/lib.rs and src/src/error.rs: the   *)
(* ObjectStore operations of `impl ObjectStore for S3`, the requests they  *)
(* build, the remote's responses they read and the results and errors they *)
(* hand back.                                                              *)
(*                                                                         *)
(* Strings whose characters matter (range headers, content-range values,   *)
(* object keys) are sequences of one-character strings.  Option<T> is a    *)
(* sequence of length zero (None) or one (Some).                           *)
(***************************************************************************)
EXTENDS Integers, Sequences, FiniteSets, TLC

VARIABLES
    objects,    \* the remote bucket: key -> Option<object>
    uploads,    \* the remote's multipart uploads: upload id -> state
    call,       \* the adapter operation last called, with its arguments
    request,    \* the request the adapter last sent to the remote
    response,   \* the remote's answer to that request
    result,     \* what the operation returned to its caller
    sink        \* the WriteMultiPart sink put_multipart handed out

vars == <<objects, uploads, call, request, response, result, sink>>

----------------------------------------------------------------------------
(* Bounds of the model. *)

MaxSize == 3          \* object sizes are 0..MaxSize bytes
MaxTick == 3          \* caller timestamps are 0..MaxTick sub-millisecond ticks
TicksPerMilli == 2    \* sub-millisecond ticks in a millisecond
MaxUploads == 1       \* upload ids the remote can issue
MaxQueued == 2        \* parts a writer can have waiting for a slot
MaxParts == 18        \* parts one session uploads at most

----------------------------------------------------------------------------
(* Option<T>. *)

None == <<>>
Some(v) == <<v>>
IsSome(o) == o /= <<>>
Unwrap(o) == o[1]

----------------------------------------------------------------------------
(* Strings as character sequences, and the std functions the code calls. *)

DigitChars == <<"0", "1", "2", "3", "4", "5", "6", "7", "8", "9">>
IsDigit(c) == \E d \in 1..10 : DigitChars[d] = c
DigitValue(c) == (CHOOSE d \in 1..10 : DigitChars[d] = c) - 1

\* usize::to_string
RECURSIVE UsizeToString(_)
UsizeToString(n) ==
    IF n < 10 THEN <<DigitChars[n + 1]>>
    ELSE UsizeToString(n \div 10) \o <<DigitChars[(n % 10) + 1]>>

RECURSIVE DigitsValue(_)
DigitsValue(s) ==
    IF s = <<>> THEN 0
    ELSE DigitsValue(SubSeq(s, 1, Len(s) - 1)) * 10 + DigitValue(s[Len(s)])

\* str::parse::<usize>: an optional "+", then at least one digit, nothing else
ParseUsize(s) ==
    LET body == IF s /= <<>> /\ s[1] = "+" THEN Tail(s) ELSE s
    IN  IF body = <<>> \/ \E i \in 1..Len(body) : ~IsDigit(body[i])
        THEN [ok |-> FALSE, val |-> 0]
        ELSE [ok |-> TRUE, val |-> DigitsValue(body)]

IsPrefix(p, s) == Len(p) <= Len(s) /\ SubSeq(s, 1, Len(p)) = p

\* str::trim_start_matches: removes the prefix as often as it repeats
RECURSIVE TrimStartMatches(_, _)
TrimStartMatches(s, p) ==
    IF p /= <<>> /\ IsPrefix(p, s)
    THEN TrimStartMatches(SubSeq(s, Len(p) + 1, Len(s)), p)
    ELSE s

\* str::split on a one-character pattern: n separators give n + 1 pieces
RECURSIVE Split(_, _)
Split(s, d) ==
    IF \A i \in 1..Len(s) : s[i] /= d THEN <<s>>
    ELSE LET i == CHOOSE k \in 1..Len(s) :
                      s[k] = d /\ \A j \in 1..(k - 1) : s[j] /= d
         IN  <<SubSeq(s, 1, i - 1)>> \o Split(SubSeq(s, i + 1, Len(s)), d)

BytesEq == <<"b", "y", "t", "e", "s", "=">>

----------------------------------------------------------------------------
(* Errors: src/src/error.rs. *)

\* Error::Unknown
ErrorUnknown == <<"Unknown">>

\* Error::from(SdkError): the #[from] variants keep the failure as their field
ErrorFromSdk(failure) == <<"Sdk", failure>>

\* Error::from(ParseIntError), Error::from(ConversionError)
ErrorParseInt == <<"ParseInt">>
ErrorS3Conversion == <<"S3Conversion">>

StoreName == "S3"

\* impl From<Error> for object_store::Error
GenericFrom(source) ==
    [status |-> "err", kind |-> "Generic", store |-> StoreName, source |-> source]

Generic(store, source) ==
    [status |-> "err", kind |-> "Generic", store |-> store, source |-> source]

NotSupported(source) ==
    [status |-> "err", kind |-> "NotSupported", store |-> "", source |-> source]

Panic == [status |-> "panic", kind |-> "", store |-> "", source |-> <<>>]

----------------------------------------------------------------------------
(* The values the operations work on. *)

Bucket == "bucket"
ETags == {"e1", "e2"}
KeyAB == <<"a", "/", "b">>
KeyAC == <<"a", "/", "c">>
KeyD == <<"d">>
Keys == {KeyAB, KeyAC, KeyD}

\* chrono: DateTime::signed_duration_since(epoch).num_milliseconds()
NumMilliseconds(ticks) == ticks \div TicksPerMilli

\* aws_smithy_types::DateTime: a time in ticks, and whether i64 milliseconds
\* ("beyond_i64" if not) and chrono ("beyond_chrono" if not) can hold it
SmithyTime(ticks) == [ticks |-> ticks, fits |-> "ok"]
SmithyTimes ==
    {SmithyTime(t) : t \in 0..MaxTick}
        \cup {[ticks |-> 0, fits |-> f] : f \in {"beyond_i64", "beyond_chrono"}}

\* aws_smithy_types::DateTime::from_millis
FromMillis(ms) == ms

\* aws_smithy_types::DateTime::to_millis -> Result<i64, ConversionError>
ToMillis(dt) ==
    IF dt.fits = "beyond_i64" THEN [ok |-> FALSE, val |-> 0]
    ELSE [ok |-> TRUE, val |-> dt.ticks \div TicksPerMilli]

\* chrono: DateTime::from_timestamp_millis -> Option<DateTime<Utc>>
FromTimestampMillis(dt) == dt.fits /= "beyond_chrono"

StoredObjects ==
    {[size |-> n, e_tag |-> e, last_modified |-> SmithyTime(t)] :
        n \in 0..MaxSize, e \in ETags, t \in 0..MaxTick}

OptETags == {None} \cup {Some(e) : e \in ETags}
OptTimes == {None} \cup {Some(t) : t \in 0..MaxTick}

\* object_store::GetRange
Bounded(s, e) == [kind |-> "Bounded", start |-> s, end |-> e]
Offset(s) == [kind |-> "Offset", start |-> s, end |-> 0]
Suffix(n) == [kind |-> "Suffix", start |-> n, end |-> 0]
BoundedRanges ==
    {r \in {Bounded(s, e) : s \in 0..MaxSize, e \in 0..MaxSize} : r.start < r.end}
GetRanges == BoundedRanges \cup {Offset(1), Suffix(1)}
OptRanges == {None} \cup {Some(r) : r \in GetRanges}

\* object_store::GetOptions
GetOptions(im, inm, ims, ius, r) ==
    [if_match |-> im, if_none_match |-> inm, if_modified_since |-> ims,
     if_unmodified_since |-> ius, range |-> r]
NoConditions(r) == GetOptions(None, None, None, None, r)

NoCall == [op |-> "none"]
NoRequest == [op |-> "none"]
NoResponse == [status |-> "none"]
NoResult == [status |-> "none", kind |-> "", store |-> "", source |-> <<>>]
NoSink == [open |-> FALSE]

SdkFailure(e) == [status |-> "err", error |-> e]

----------------------------------------------------------------------------
(* get_opts: src/src/lib.rs 91-175. *)

\* lines 131-136: the range header of a bounded range
RangeHeader(range) ==
    BytesEq \o UsizeToString(range.start) \o <<"-">> \o UsizeToString(range.end)

\* lines 96-136: the request builder; a later setter of a field replaces an
\* earlier one
GetRequest(location, options) ==
    LET r0 == [op |-> "GetObject", bucket |-> Bucket, key |-> location,
               if_match |-> None, if_none_match |-> None,
               if_modified_since |-> None, if_unmodified_since |-> None,
               range |-> None]
        r1 == IF IsSome(options.if_match)
              THEN [r0 EXCEPT !.if_match = options.if_match] ELSE r0
        r2 == IF IsSome(options.if_none_match)
              THEN [r1 EXCEPT !.if_none_match = options.if_none_match] ELSE r1
        r3 == IF IsSome(options.if_modified_since)
              THEN [r2 EXCEPT !.if_modified_since =
                      Some(FromMillis(NumMilliseconds(Unwrap(options.if_modified_since))))]
              ELSE r2
        r4 == IF IsSome(options.if_unmodified_since)
              THEN [r3 EXCEPT !.if_modified_since =
                      Some(FromMillis(NumMilliseconds(Unwrap(options.if_unmodified_since))))]
              ELSE r3
    IN  IF IsSome(options.range) /\ Unwrap(options.range).kind = "Bounded"
        THEN [r4 EXCEPT !.range = Some(RangeHeader(Unwrap(options.range)))]
        ELSE r4

\* lines 138-145 and 188-195: Ok(millis), Err(..) or the unwrap's panic
LastModified(last_modified) ==
    IF ~IsSome(last_modified) THEN GenericFrom(ErrorUnknown)
    ELSE IF ~ToMillis(Unwrap(last_modified)).ok THEN GenericFrom(ErrorS3Conversion)
    ELSE IF ~FromTimestampMillis(Unwrap(last_modified)) THEN Panic
    ELSE [status |-> "ok", millis |-> ToMillis(Unwrap(last_modified)).val]

\* GetObjectOutput::content_length(): the accessor of an absent field gives 0
ContentLength(content_length) ==
    IF IsSome(content_length) THEN Unwrap(content_length) ELSE 0

\* lines 147-153: the pieces of the content-range, each parsed
ContentRangePieces(content_range) ==
    LET pieces == Split(TrimStartMatches(content_range, BytesEq), "-")
    IN  [i \in 1..Len(pieces) |-> ParseUsize(pieces[i])]

\* lines 157-162: the payload stream; a failure of the body becomes a Generic
\* error of the store "aws_smithy"
PayloadStream(resp) ==
    [len |-> resp.body_len,
     error |-> IF IsSome(resp.body_error)
               THEN Some(Generic("aws_smithy", <<"ByteStream", Unwrap(resp.body_error)>>))
               ELSE None]

\* lines 137-174: what get_opts makes of the remote's answer
GetResult(location, resp) ==
    IF resp.status = "err" THEN GenericFrom(ErrorFromSdk(resp.error))
    ELSE LET lm == LastModified(resp.last_modified)
         IN  IF lm.status /= "ok" THEN lm
             ELSE IF ~IsSome(resp.content_range) THEN GenericFrom(ErrorUnknown)
             ELSE LET range == ContentRangePieces(Unwrap(resp.content_range))
                  IN  IF \E i \in 1..Len(range) : ~range[i].ok
                      THEN GenericFrom(ErrorParseInt)
                      ELSE IF Len(range) < 2 THEN Panic
                      ELSE [status |-> "ok", kind |-> "", store |-> "",
                            source |-> <<>>,
                            payload |-> PayloadStream(resp),
                            meta |-> [location |-> location,
                                      last_modified |-> lm.millis,
                                      size |-> ContentLength(resp.content_length),
                                      e_tag |-> resp.e_tag,
                                      version |-> None],
                            range |-> [start |-> range[1].val, end |-> range[2].val]]

\* lines 91-175: get_opts, the remote answering the request with resp
get_opts(location, options, resp) ==
    /\ call' = [op |-> "get_opts", location |-> location, options |-> options]
    /\ request' = GetRequest(location, options)
    /\ response' = resp
    /\ result' = GetResult(location, resp)
    /\ UNCHANGED <<objects, uploads, sink>>

----------------------------------------------------------------------------
(* head: src/src/lib.rs 176-204. *)

HeadRequest(location) ==
    [op |-> "HeadObject", bucket |-> Bucket, key |-> location]

HeadResult(location, resp) ==
    IF resp.status = "err" THEN GenericFrom(ErrorFromSdk(resp.error))
    ELSE LET lm == LastModified(resp.last_modified)
         IN  IF lm.status /= "ok" THEN lm
             ELSE [status |-> "ok", kind |-> "", store |-> "", source |-> <<>>,
                   meta |-> [location |-> location,
                             last_modified |-> lm.millis,
                             size |-> ContentLength(resp.content_length),
                             e_tag |-> resp.e_tag,
                             version |-> None]]

\* lines 176-204: head, the remote answering the request with resp
head(location, resp) ==
    /\ call' = [op |-> "head", location |-> location]
    /\ request' = HeadRequest(location)
    /\ response' = resp
    /\ result' = HeadResult(location, resp)
    /\ UNCHANGED <<objects, uploads, sink>>

----------------------------------------------------------------------------
(* The remote service the client talks to, as the S3 protocol has it.  Each *)
(* operator gives the answers the remote can give to a request, and for a   *)
(* request that writes, the bucket after it.                                *)

TransportFailure == SdkFailure("DispatchFailure")

MinOf(a, b) == IF a < b THEN a ELSE b

\* The content-range of the bytes first..last of an object of `size` bytes:
\* the header as HTTP writes it, and as bytes=<first>-<last>
ContentRangeHttp(first, last, size) ==
    <<"b", "y", "t", "e", "s", " ">> \o UsizeToString(first) \o <<"-">>
        \o UsizeToString(last) \o <<"/">> \o UsizeToString(size)
ContentRangeEq(first, last) ==
    BytesEq \o UsizeToString(first) \o <<"-">> \o UsizeToString(last)

\* A range header bytes=<first>-<last> names the bytes first..last, both
\* included; any other header is ignored
ParsedRangeHeader(header) ==
    LET pieces == IF IsPrefix(BytesEq, header)
                  THEN Split(SubSeq(header, Len(BytesEq) + 1, Len(header)), "-")
                  ELSE <<>>
    IN  IF Len(pieces) = 2 /\ ParseUsize(pieces[1]).ok /\ ParseUsize(pieces[2]).ok
           /\ ParseUsize(pieces[1]).val <= ParseUsize(pieces[2]).val
        THEN Some([first |-> ParseUsize(pieces[1]).val,
                   last |-> ParseUsize(pieces[2]).val])
        ELSE None

ObjectAnswer(o, content_length, content_range, body_len) ==
    [status |-> "ok", last_modified |-> Some(o.last_modified),
     content_length |-> Some(content_length), content_range |-> content_range,
     e_tag |-> Some(o.e_tag), body_len |-> body_len, body_error |-> None]

RemoteGetObject(store, req) ==
    IF ~IsSome(store[req.key]) THEN {SdkFailure("NoSuchKey")}
    ELSE
    LET o == Unwrap(store[req.key])
        ms == ToMillis(o.last_modified).val
        ranged == IF IsSome(req.range) THEN ParsedRangeHeader(Unwrap(req.range))
                  ELSE None
    IN  IF IsSome(req.if_match) /\ Unwrap(req.if_match) /= o.e_tag
        THEN {SdkFailure("PreconditionFailed")}
        ELSE IF IsSome(req.if_unmodified_since) /\ ms > Unwrap(req.if_unmodified_since)
        THEN {SdkFailure("PreconditionFailed")}
        ELSE IF IsSome(req.if_none_match) /\ Unwrap(req.if_none_match) = o.e_tag
        THEN {SdkFailure("NotModified")}
        ELSE IF IsSome(req.if_modified_since) /\ ms <= Unwrap(req.if_modified_since)
        THEN {SdkFailure("NotModified")}
        ELSE IF ~IsSome(ranged)
        THEN {ObjectAnswer(o, o.size, None, o.size)}
        ELSE IF Unwrap(ranged).first >= o.size
        THEN {SdkFailure("InvalidRange")}
        ELSE LET first == Unwrap(ranged).first
                 last == MinOf(Unwrap(ranged).last, o.size - 1)
                 n == last - first + 1
             IN  {ObjectAnswer(o, n, Some(ContentRangeHttp(first, last, o.size)), n),
                  ObjectAnswer(o, n, Some(ContentRangeEq(first, last)), n)}

RemoteHeadObject(store, req) ==
    IF ~IsSome(store[req.key]) THEN {SdkFailure("NotFound")}
    ELSE LET o == Unwrap(store[req.key])
         IN  {[status |-> "ok", last_modified |-> Some(o.last_modified),
               content_length |-> Some(o.size), e_tag |-> Some(o.e_tag)]}

\* PutObject stores the body under the key, with a new entity tag and time
RemotePutObject(store, req) ==
    {[resp |-> [status |-> "ok", e_tag |-> Some(e), version_id |-> None],
      objects |-> [store EXCEPT ![req.key] =
                      Some([size |-> req.body_len, e_tag |-> e,
                            last_modified |-> SmithyTime(t)])]] :
        e \in ETags, t \in {0, MaxTick}}

\* DeleteObject succeeds whether or not the key holds an object
RemoteDeleteObject(store, req) ==
    {[resp |-> [status |-> "ok"], objects |-> [store EXCEPT ![req.key] = None]]}

\* CopyObject reads <bucket>/<key> as its source
RemoteCopyObject(store, req) ==
    LET src == req.copy_source
        key == SubSeq(src, 3, Len(src))
    IN  IF Len(src) >= 3 /\ src[1] = req.bucket /\ src[2] = "/"
           /\ key \in DOMAIN store /\ IsSome(store[key])
        THEN {[resp |-> [status |-> "ok"],
               objects |-> [store EXCEPT ![req.key] = store[key]]]}
        ELSE {[resp |-> SdkFailure("NoSuchKey"), objects |-> store]}

\* The remote may also fail to answer, and then the bucket is as it was
WithFailure(store, answers) ==
    answers \cup {[resp |-> TransportFailure, objects |-> store]}
WithFailureUploads(ups, answers) ==
    answers \cup {[resp |-> TransportFailure, uploads |-> ups]}

----------------------------------------------------------------------------
(* put_opts, delete, copy, copy_if_not_exists: src/src/lib.rs 53-90, 305-325 *)

Unit == [status |-> "ok", kind |-> "", store |-> "", source |-> <<>>]

\* lines 311-318: the request of put_opts
PutRequest(location, bytes, tags) ==
    [op |-> "PutObject", bucket |-> Bucket, key |-> location,
     body_len |-> bytes, tagging |-> tags]

\* lines 305-325: put_opts, the remote answering the request with a.resp and
\* holding a.objects after it
put_opts(location, bytes, tags, a) ==
    /\ call' = [op |-> "put_opts", location |-> location]
    /\ request' = PutRequest(location, bytes, tags)
    /\ response' = a.resp
    /\ objects' = a.objects
    /\ result' = IF a.resp.status = "err"
                 THEN GenericFrom(ErrorFromSdk(a.resp.error))
                 ELSE [status |-> "ok", kind |-> "", store |-> "",
                       source |-> <<>>, e_tag |-> a.resp.e_tag,
                       version |-> a.resp.version_id]
    /\ UNCHANGED <<uploads, sink>>

\* lines 82-85: the request of delete
DeleteRequest(location) ==
    [op |-> "DeleteObject", bucket |-> Bucket, key |-> location]

\* lines 81-90
delete(location, a) ==
    /\ call' = [op |-> "delete", location |-> location]
    /\ request' = DeleteRequest(location)
    /\ response' = a.resp
    /\ objects' = a.objects
    /\ result' = IF a.resp.status = "err"
                 THEN GenericFrom(ErrorFromSdk(a.resp.error))
                 ELSE Unit
    /\ UNCHANGED <<uploads, sink>>

\* lines 58-66: the request of copy, its source "<bucket>/<from>"
CopyRequest(from, to) ==
    [op |-> "CopyObject", bucket |-> Bucket, key |-> to,
     copy_source |-> <<Bucket>> \o <<"/">> \o from]

\* lines 53-71
copy(from, to, a) ==
    /\ call' = [op |-> "copy", from |-> from, to |-> to]
    /\ request' = CopyRequest(from, to)
    /\ response' = a.resp
    /\ objects' = a.objects
    /\ result' = IF a.resp.status = "err"
                 THEN GenericFrom(ErrorFromSdk(a.resp.error))
                 ELSE Unit
    /\ UNCHANGED <<uploads, sink>>

\* copy_if_not_exists carried out as copy is: a request to the remote
copy_if_not_exists_sending(from, to) ==
    LET req == CopyRequest(from, to)
    IN  \E a \in RemoteCopyObject(objects, req) :
            /\ call' = [op |-> "copy_if_not_exists", from |-> from, to |-> to]
            /\ request' = req
            /\ response' = a.resp
            /\ objects' = a.objects
            /\ result' = IF a.resp.status = "err"
                         THEN NotSupported(ErrorUnknown)
                         ELSE Unit
            /\ UNCHANGED <<uploads, sink>>

\* lines 72-80: no request is built
copy_if_not_exists(from, to) ==
    /\ call' = [op |-> "copy_if_not_exists", from |-> from, to |-> to]
    /\ result' = NotSupported(ErrorUnknown)
    /\ UNCHANGED <<objects, uploads, request, response, sink>>

----------------------------------------------------------------------------
(* list, list_with_delimiter: src/src/lib.rs 205-304. *)

KeyOrder == <<KeyAB, KeyAC, KeyD>>
Delimiter == "/"

\* Where the delimiter first occurs in s after its first `from` characters,
\* or 0
DelimiterAfter(s, from, d) ==
    IF \E i \in (from + 1)..Len(s) : s[i] = d
    THEN CHOOSE i \in (from + 1)..Len(s) :
             s[i] = d /\ \A j \in (from + 1)..(i - 1) : s[j] /= d
    ELSE 0

\* Sequence of the distinct members of a sequence, in order
RECURSIVE Dedup(_)
Dedup(q) ==
    IF q = <<>> THEN <<>>
    ELSE LET rest == Dedup(SubSeq(q, 1, Len(q) - 1))
             x == q[Len(q)]
         IN  IF \E i \in 1..Len(rest) : rest[i] = x THEN rest ELSE Append(rest, x)

ListEntry(store, k) ==
    [key |-> Some(k), last_modified |-> Some(Unwrap(store[k]).last_modified),
     size |-> Some(Unwrap(store[k]).size), e_tag |-> Some(Unwrap(store[k]).e_tag)]

\* ListObjectsV2: the keys with the prefix; with a delimiter in the request,
\* the keys holding it after the prefix are rolled up into common prefixes
RemoteListObjectsV2(store, req) ==
    LET plen == IF IsSome(req.prefix) THEN Len(Unwrap(req.prefix)) ELSE 0
        Under(k) == IsSome(store[k])
                      /\ (IsSome(req.prefix) => IsPrefix(Unwrap(req.prefix), k))
        Cut(k) == IF IsSome(req.delimiter)
                  THEN DelimiterAfter(k, plen, Unwrap(req.delimiter)) ELSE 0
        IsContent(k) == Under(k) /\ Cut(k) = 0
        IsRolled(k) == Under(k) /\ Cut(k) > 0
        contents == SelectSeq(KeyOrder, IsContent)
        rolled == SelectSeq(KeyOrder, IsRolled)
        prefixes == Dedup([i \in 1..Len(rolled) |->
                              SubSeq(rolled[i], 1, Cut(rolled[i]))])
    IN  {[status |-> "ok",
          contents |-> IF contents = <<>> THEN None
                       ELSE Some([i \in 1..Len(contents) |->
                                     ListEntry(store, contents[i])]),
          common_prefixes |-> IF prefixes = <<>> THEN None
                              ELSE Some([i \in 1..Len(prefixes) |->
                                            [prefix |-> Some(prefixes[i])]])]}

\* lines 209-213 and 257-261: the request; no delimiter is set
ListRequest(prefix) ==
    [op |-> "ListObjectsV2", bucket |-> Bucket, prefix |-> prefix,
     delimiter |-> None]

\* lines 222-242 and 267-287: one entry of the listing as ObjectMeta
ListedObject(object) ==
    LET lm == LastModified(object.last_modified)
    IN  IF lm.status /= "ok" THEN lm
        ELSE IF ~IsSome(object.key) THEN Generic("aws", ErrorUnknown)
        ELSE [status |-> "ok", kind |-> "", store |-> "", source |-> <<>>,
              meta |-> [location |-> Unwrap(object.key),
                        last_modified |-> lm.millis,
                        size |-> ContentLength(object.size),
                        e_tag |-> object.e_tag,
                        version |-> None]]

Stream(items) ==
    [status |-> "stream", kind |-> "", store |-> "", source |-> <<>>,
     items |-> items]

\* lines 214-250: the stream list returns: the failure of the request, or
\* one Ok or Err for each entry of the answer; a panic ends the stream
ListResult(resp) ==
    IF resp.status = "err" THEN Stream(<<GenericFrom(ErrorUnknown)>>)
    ELSE IF ~IsSome(resp.contents) THEN Stream(<<>>)
    ELSE LET contents == Unwrap(resp.contents)
         IN  Stream([i \in 1..Len(contents) |-> ListedObject(contents[i])])

\* lines 205-251
list(prefix, resp) ==
    /\ call' = [op |-> "list", prefix |-> prefix]
    /\ request' = ListRequest(prefix)
    /\ response' = resp
    /\ result' = ListResult(resp)
    /\ UNCHANGED <<objects, uploads, sink>>

\* lines 294-302: None for an absent list and for a list with an entry
\* that has no prefix, and unwrap_or's empty list for None
CommonPrefixes(common_prefixes) ==
    IF ~IsSome(common_prefixes) THEN <<>>
    ELSE LET prefixes == Unwrap(common_prefixes)
         IN  IF \E i \in 1..Len(prefixes) : ~IsSome(prefixes[i].prefix)
             THEN <<>>
             ELSE [i \in 1..Len(prefixes) |-> Unwrap(prefixes[i].prefix)]

\* lines 262-304: collect stops at the first entry that is an error
ListWithDelimiterResult(resp) ==
    IF resp.status = "err" THEN GenericFrom(ErrorFromSdk(resp.error))
    ELSE LET contents == IF IsSome(resp.contents) THEN Unwrap(resp.contents)
                         ELSE <<>>
             metas == [i \in 1..Len(contents) |-> ListedObject(contents[i])]
             bad == {i \in 1..Len(metas) : metas[i].status /= "ok"}
         IN  IF bad /= {}
             THEN metas[CHOOSE i \in bad : \A j \in bad : i <= j]
             ELSE [status |-> "ok", kind |-> "", store |-> "", source |-> <<>>,
                   objects |-> [i \in 1..Len(metas) |-> metas[i].meta],
                   common_prefixes |-> CommonPrefixes(resp.common_prefixes)]

\* lines 253-304
list_with_delimiter(prefix, resp) ==
    /\ call' = [op |-> "list_with_delimiter", prefix |-> prefix]
    /\ request' = ListRequest(prefix)
    /\ response' = resp
    /\ result' = ListWithDelimiterResult(resp)
    /\ UNCHANGED <<objects, uploads, sink>>

----------------------------------------------------------------------------
(* Multipart uploads at the remote. *)

UploadIds == 1..MaxUploads
FreeUpload == [state |-> "free", key |-> <<>>, parts |-> 0]

\* CreateMultipartUpload opens an upload under an id not used before
RemoteCreateMultipartUpload(ups, req) ==
    LET free == {u \in UploadIds : ups[u].state = "free"}
    IN  IF free = {} THEN {[resp |-> SdkFailure("ServiceError"), uploads |-> ups]}
        ELSE LET u == CHOOSE x \in free : \A y \in free : x <= y
             IN  {[resp |-> [status |-> "ok", upload_id |-> Some(u)],
                   uploads |-> [ups EXCEPT ![u] =
                       [state |-> "open", key |-> req.key, parts |-> 0]]]}

\* UploadPart adds a part to an open upload
RemoteUploadPart(ups, req) ==
    IF ups[req.upload_id].state = "open"
    THEN {[resp |-> [status |-> "ok"],
           uploads |-> [ups EXCEPT ![req.upload_id].parts = @ + 1]]}
    ELSE {[resp |-> SdkFailure("NoSuchUpload"), uploads |-> ups]}

\* AbortMultipartUpload discards an open upload and its parts
RemoteAbortMultipartUpload(ups, req) ==
    IF req.upload_id \in UploadIds /\ ups[req.upload_id].state = "open"
       /\ ups[req.upload_id].key = req.key
    THEN {[resp |-> [status |-> "ok"],
           uploads |-> [ups EXCEPT ![req.upload_id] =
               [state |-> "aborted", key |-> req.key, parts |-> 0]]]}
    ELSE {[resp |-> SdkFailure("NoSuchUpload"), uploads |-> ups]}

\* CompleteMultipartUpload makes the object of the parts of an open upload;
\* it refuses an upload that is not open and an empty list of parts
RemoteCompleteMultipartUpload(store, ups, req) ==
    LET u == ups[req.upload_id]
    IN  IF u.state /= "open"
        THEN {[resp |-> SdkFailure("NoSuchUpload"), uploads |-> ups,
               objects |-> store]}
        ELSE IF req.parts = 0 \/ req.parts > u.parts
        THEN {[resp |-> SdkFailure("MalformedXML"), uploads |-> ups,
               objects |-> store]}
        ELSE {[resp |-> [status |-> "ok"],
               uploads |-> [ups EXCEPT ![req.upload_id].state = "completed"],
               objects |-> [store EXCEPT ![u.key] =
                   Some([size |-> MinOf(req.parts, MaxSize), e_tag |-> e,
                         last_modified |-> SmithyTime(0)])]] : e \in {"e1"}}

----------------------------------------------------------------------------
(* put_multipart, abort_multipart: src/src/lib.rs 326-353, 38-52. *)

\* line 349: the part uploads WriteMultiPart runs at once
WriteMultiPartSlots == 16

max_concurrency_off_by_one == WriteMultiPartSlots + 1

\* lines 342-350: WriteMultiPart::new(MultiPartUpload {..}, 16)
max_concurrency == WriteMultiPartSlots

NewSink(location, upload_id) ==
    [open |-> TRUE, upload_id |-> upload_id, location |-> location,
     max_concurrency |-> max_concurrency, in_flight |-> 0, queued |-> 0,
     submitted |-> 0, failed |-> FALSE]

\* lines 333-338: the request of put_multipart
CreateRequest(location) ==
    [op |-> "CreateMultipartUpload", bucket |-> Bucket, key |-> location]

\* lines 326-353
put_multipart(location, a) ==
    /\ call' = [op |-> "put_multipart", location |-> location]
    /\ request' = CreateRequest(location)
    /\ response' = a.resp
    /\ uploads' = a.uploads
    /\ IF a.resp.status = "err"
       THEN /\ result' = GenericFrom(ErrorFromSdk(a.resp.error))
            /\ UNCHANGED sink
       ELSE IF ~IsSome(a.resp.upload_id)
       THEN /\ result' = GenericFrom(ErrorUnknown)
            /\ UNCHANGED sink
       ELSE /\ result' = [status |-> "ok", kind |-> "", store |-> "",
                          source |-> <<>>,
                          upload_id |-> Unwrap(a.resp.upload_id)]
            /\ sink' = NewSink(location, Unwrap(a.resp.upload_id))
    /\ UNCHANGED objects

\* lines 43-47: the request of abort_multipart
AbortRequest(location, multipart_id) ==
    [op |-> "AbortMultipartUpload", bucket |-> Bucket, key |-> location,
     upload_id |-> multipart_id]

\* abort_multipart with the `?` on the remote's answer left out
abort_multipart_unchecked(location, multipart_id, a) ==
    /\ call' = [op |-> "abort_multipart", location |-> location,
                upload_id |-> multipart_id]
    /\ request' = AbortRequest(location, multipart_id)
    /\ response' = a.resp
    /\ uploads' = a.uploads
    /\ result' = Unit
    /\ UNCHANGED <<objects, sink>>

\* lines 38-52
abort_multipart(location, multipart_id, a) ==
    /\ call' = [op |-> "abort_multipart", location |-> location,
                upload_id |-> multipart_id]
    /\ request' = AbortRequest(location, multipart_id)
    /\ response' = a.resp
    /\ uploads' = a.uploads
    /\ result' = IF a.resp.status = "err"
                 THEN GenericFrom(ErrorFromSdk(a.resp.error))
                 ELSE Unit
    /\ UNCHANGED <<objects, sink>>

----------------------------------------------------------------------------
(* The sink put_multipart returns: a WriteMultiPart over this repository's  *)
(* MultiPartUpload (mod multipart).  The writer hands it one part's bytes   *)
(* at a time.                                                               *)

Pending == [status |-> "pending", kind |-> "", store |-> "", source |-> <<>>]

UploadPartRequest(s) ==
    [op |-> "UploadPart", bucket |-> Bucket, key |-> s.location,
     upload_id |-> s.upload_id, part_number |-> s.submitted + 1]

\* A write of one part: sent at once while a slot is free, held back otherwise
sink_write ==
    /\ sink.open /\ ~sink.failed
    /\ sink.submitted + sink.queued < MaxParts
    /\ call' = [op |-> "write"]
    /\ IF sink.in_flight < sink.max_concurrency /\ sink.queued = 0
       THEN /\ sink' = [sink EXCEPT !.in_flight = @ + 1, !.submitted = @ + 1]
            /\ request' = UploadPartRequest(sink)
            /\ response' = NoResponse
            /\ result' = Unit
       ELSE /\ sink.queued < MaxQueued
            /\ sink' = [sink EXCEPT !.queued = @ + 1]
            /\ result' = Pending
            /\ UNCHANGED <<request, response>>
    /\ UNCHANGED <<objects, uploads>>

\* A slot is free again: the part that waited longest is sent
sink_send_queued ==
    /\ sink.open /\ ~sink.failed
    /\ sink.queued > 0 /\ sink.in_flight < sink.max_concurrency
    /\ call' = [op |-> "write"]
    /\ sink' = [sink EXCEPT !.queued = @ - 1, !.in_flight = @ + 1,
                            !.submitted = @ + 1]
    /\ request' = UploadPartRequest(sink)
    /\ response' = NoResponse
    /\ result' = Unit
    /\ UNCHANGED <<objects, uploads>>

\* One part upload in flight finishes, with the remote's answer; a failure
\* stays with the sink for its writer
sink_part_done ==
    /\ sink.open /\ sink.in_flight > 0
    /\ \E a \in RemoteUploadPart(uploads, [upload_id |-> sink.upload_id]) :
            /\ uploads' = a.uploads
            /\ sink' = [sink EXCEPT !.in_flight = @ - 1,
                                    !.failed = @ \/ a.resp.status = "err"]
    /\ call' = [op |-> "part_done"]
    /\ UNCHANGED <<objects, request, response, result>>

\* shutdown: once no part is in flight or waiting, the completion request
\* with the parts uploaded
sink_shutdown ==
    /\ sink.open
    /\ sink.in_flight = 0 /\ sink.queued = 0
    /\ call' = [op |-> "shutdown", upload_id |-> sink.upload_id]
    /\ IF sink.failed
       THEN /\ result' = GenericFrom(ErrorFromSdk("NoSuchUpload"))
            /\ UNCHANGED <<objects, uploads, request, response, sink>>
       ELSE LET req == [op |-> "CompleteMultipartUpload", bucket |-> Bucket,
                        key |-> sink.location, upload_id |-> sink.upload_id,
                        parts |-> sink.submitted]
            IN  \E a \in RemoteCompleteMultipartUpload(objects, uploads, req) :
                    /\ request' = req
                    /\ response' = a.resp
                    /\ objects' = a.objects
                    /\ uploads' = a.uploads
                    /\ result' = IF a.resp.status = "err"
                                 THEN GenericFrom(ErrorFromSdk(a.resp.error))
                                 ELSE Unit
                    /\ UNCHANGED sink

----------------------------------------------------------------------------
(* Specifications.  Each starts from an empty bucket, or one object, and    *)
(* calls the operations with arguments and remote answers from small sets.  *)

EmptyBucket == [k \in Keys |-> None]
NoUploads == [u \in UploadIds |-> FreeUpload]

InitWith(store) ==
    /\ objects = store
    /\ uploads = NoUploads
    /\ call = NoCall
    /\ request = NoRequest
    /\ response = NoResponse
    /\ result = NoResult
    /\ sink = NoSink

Sizes == {0, 1, MaxSize}
Tags == {"", "k=v"}

(* Spec: the operations that read and write whole objects. *)

StoreKeys == {KeyAB, KeyD}

Init == InitWith(EmptyBucket)

PutOpts ==
    \E k \in StoreKeys, n \in Sizes, t \in Tags :
        \E a \in WithFailure(objects, RemotePutObject(objects, PutRequest(k, n, t))) :
            put_opts(k, n, t, a)

Delete ==
    \E k \in StoreKeys :
        \E a \in WithFailure(objects, RemoteDeleteObject(objects, DeleteRequest(k))) :
            delete(k, a)

Copy ==
    \E from \in StoreKeys, to \in StoreKeys :
        \E a \in WithFailure(objects, RemoteCopyObject(objects, CopyRequest(from, to))) :
            copy(from, to, a)

CopyIfNotExists ==
    \E from \in StoreKeys, to \in StoreKeys : copy_if_not_exists(from, to)

HeadObject ==
    \E k \in StoreKeys :
        \E resp \in RemoteHeadObject(objects, HeadRequest(k)) \cup {TransportFailure} :
            head(k, resp)

Next == PutOpts \/ Delete \/ Copy \/ CopyIfNotExists \/ HeadObject

Spec == Init /\ [][Next]_vars

(* SpecGetRequest: get_opts with every combination of options, the remote *)
(* answering as the protocol has it.                                       *)

OneObject(k, o) == [EmptyBucket EXCEPT ![k] = Some(o)]

InitGetRequest ==
    InitWith(OneObject(KeyD, [size |-> MaxSize, e_tag |-> "e1",
                              last_modified |-> SmithyTime(1)]))

RequestRanges ==
    {None, Some(Bounded(0, 1)), Some(Bounded(1, MaxSize)), Some(Offset(1)),
     Some(Suffix(1))}

GetWithOptions ==
    \E im \in OptETags, inm \in OptETags, ims \in OptTimes, ius \in OptTimes,
       r \in RequestRanges :
        \E resp \in RemoteGetObject(objects,
                        GetRequest(KeyD, GetOptions(im, inm, ims, ius, r))) :
            get_opts(KeyD, GetOptions(im, inm, ims, ius, r), resp)

NextGetRequest == GetWithOptions

SpecGetRequest == InitGetRequest /\ [][NextGetRequest]_vars

(* SpecGet: ranged gets, heads and puts of one location. *)

InitGet == InitWith(EmptyBucket)

GetRanged ==
    \E r \in OptRanges :
        \E resp \in RemoteGetObject(objects, GetRequest(KeyD, NoConditions(r))) :
            get_opts(KeyD, NoConditions(r), resp)

HeadSame ==
    \E resp \in RemoteHeadObject(objects, HeadRequest(KeyD)) : head(KeyD, resp)

PutSame ==
    \E n \in 0..MaxSize :
        \E a \in RemotePutObject(objects, PutRequest(KeyD, n, "")) :
            put_opts(KeyD, n, "", a)

NextGet == GetRanged \/ HeadSame \/ PutSame

SpecGet == InitGet /\ [][NextGet]_vars

(* SpecGetResponse: get_opts over the answers a remote can give, whatever *)
(* the content-range string and with any of the fields absent.             *)

MaxPieces == 3

Pieces == {<<>>, <<"1">>, <<"2">>, <<"1", "2">>, <<"x">>, <<"1", "x">>}

RECURSIVE Joined(_)
Joined(n) ==
    IF n = 1 THEN Pieces
    ELSE {a \o <<"-">> \o b : a \in Joined(n - 1), b \in Pieces}

ContentRangePrefixes ==
    {<<>>, BytesEq, BytesEq \o BytesEq, <<"b", "y", "t", "e", "s", " ">>}

ContentRanges ==
    {p \o b : p \in ContentRangePrefixes,
              b \in UNION {Joined(n) : n \in 1..MaxPieces}}

GoodAnswer ==
    [status |-> "ok", last_modified |-> Some(SmithyTime(1)),
     content_length |-> Some(1),
     content_range |-> Some(BytesEq \o <<"1", "-", "2">>),
     e_tag |-> Some("e1"), body_len |-> 1, body_error |-> None]

ArbitraryGetAnswers ==
    {TransportFailure}
        \cup {[GoodAnswer EXCEPT !.content_range = Some(c)] : c \in ContentRanges}
        \cup {[GoodAnswer EXCEPT !.content_range = None]}
        \cup {[GoodAnswer EXCEPT !.last_modified = Some(t)] : t \in SmithyTimes}
        \cup {[GoodAnswer EXCEPT !.last_modified = None]}
        \cup {[GoodAnswer EXCEPT !.content_length = None]}
        \cup {[GoodAnswer EXCEPT !.e_tag = None]}
        \cup {[GoodAnswer EXCEPT !.body_error = Some("io")]}

InitGetResponse == InitWith(EmptyBucket)

GetAnswered ==
    \E resp \in ArbitraryGetAnswers :
        get_opts(KeyD, NoConditions(Some(Bounded(1, 2))), resp)

NextGetResponse == GetAnswered

SpecGetResponse == InitGetResponse /\ [][NextGetResponse]_vars

(* SpecList: listings of a bucket that puts and deletes fill and empty,    *)
(* the remote answering as the protocol has it, failing, or leaving out a  *)
(* field of its answer.                                                    *)

ListPrefixes == {None, Some(<<"a">>), Some(<<"d">>)}

WithoutField(entries, i, field) ==
    [entries EXCEPT ![i] =
        IF field = "key" THEN [@ EXCEPT !.key = None]
        ELSE IF field = "last_modified" THEN [@ EXCEPT !.last_modified = None]
        ELSE IF field = "size" THEN [@ EXCEPT !.size = None]
        ELSE [@ EXCEPT !.e_tag = None]]

IncompleteListAnswers(resp) ==
    (IF IsSome(resp.contents)
     THEN {[resp EXCEPT !.contents = Some(WithoutField(Unwrap(resp.contents), i, f))] :
              i \in 1..Len(Unwrap(resp.contents)),
              f \in {"key", "last_modified", "size", "e_tag"}}
     ELSE {})
    \cup {[resp EXCEPT !.common_prefixes = Some(c)] :
             c \in {<<[prefix |-> None]>>,
                    <<[prefix |-> Some(<<"a", "/">>)], [prefix |-> None]>>}}

ListAnswers(req) ==
    LET good == RemoteListObjectsV2(objects, req)
    IN  good \cup {TransportFailure}
             \cup UNION {IncompleteListAnswers(resp) : resp \in good}

InitList == InitWith(EmptyBucket)

PutKey ==
    \E k \in Keys :
        \E a \in WithFailure(objects,
                    {x \in RemotePutObject(objects, PutRequest(k, 1, "")) :
                        x.resp.e_tag = Some("e1")}) :
            put_opts(k, 1, "", a)

DeleteKey ==
    \E k \in Keys :
        \E a \in WithFailure(objects, RemoteDeleteObject(objects, DeleteRequest(k))) :
            delete(k, a)

List ==
    \E prefix \in ListPrefixes :
        \E resp \in ListAnswers(ListRequest(prefix)) : list(prefix, resp)

ListWithDelimiter ==
    \E prefix \in ListPrefixes :
        \E resp \in ListAnswers(ListRequest(prefix)) :
            list_with_delimiter(prefix, resp)

NextList == PutKey \/ DeleteKey \/ List \/ ListWithDelimiter

SpecList == InitList /\ [][NextList]_vars

(* SpecMultipart: multipart sessions of one location: their start, the    *)
(* writer's parts, the part uploads finishing, shutdown and abort.         *)

InitMultipart == InitWith(EmptyBucket)

CreateAnswers(req) ==
    LET good == RemoteCreateMultipartUpload(uploads, req)
    IN  WithFailureUploads(uploads, good)
            \cup {[a EXCEPT !.resp = [status |-> "ok", upload_id |-> None]] :
                     a \in {g \in good : g.resp.status = "ok"}}

PutMultipart ==
    \E a \in CreateAnswers(CreateRequest(KeyD)) : put_multipart(KeyD, a)

AbortMultipart ==
    \E u \in UploadIds :
        \E a \in WithFailureUploads(uploads,
                    RemoteAbortMultipartUpload(uploads, AbortRequest(KeyD, u))) :
            abort_multipart(KeyD, u, a)

NextMultipart ==
    \/ PutMultipart
    \/ sink_write
    \/ sink_send_queued
    \/ sink_part_done
    \/ sink_shutdown
    \/ AbortMultipart

SpecMultipart == InitMultipart /\ [][NextMultipart]_vars

----------------------------------------------------------------------------
(* C1: the request of get_opts carries if-match, if-none-match,             *)
(* if-modified-since, if-unmodified-since and range exactly when the option *)
(* is present, with the option's value, the times in milliseconds since the *)
(* epoch; a present if_unmodified_since sets if-unmodified-since and leaves *)
(* if-modified-since to if_modified_since alone.                            *)
MillisOf(time) ==
    IF IsSome(time) THEN Some(Unwrap(time) \div TicksPerMilli) ELSE None

C1_RequestCarriesOptions ==
    call.op = "get_opts" =>
        /\ request.if_match = call.options.if_match
        /\ request.if_none_match = call.options.if_none_match
        /\ request.if_modified_since = MillisOf(call.options.if_modified_since)
        /\ request.if_unmodified_since = MillisOf(call.options.if_unmodified_since)
        /\ ~IsSome(call.options.range) => ~IsSome(request.range)
        /\ (IsSome(call.options.range) /\ Unwrap(call.options.range).kind = "Bounded")
              => request.range =
                    Some(BytesEq \o UsizeToString(Unwrap(call.options.range).start)
                           \o <<"-">> \o UsizeToString(Unwrap(call.options.range).end))

(* C2: a get of the bounded range [s,e), s < e <= n, of an object of n      *)
(* bytes, answered by a remote that applies the range header it is sent,    *)
(* returns a payload of e - s bytes and the range [s,e).                    *)
C2_RangedGetReturnsRange ==
    (/\ call.op = "get_opts"
     /\ IsSome(call.options.range)
     /\ Unwrap(call.options.range).kind = "Bounded"
     /\ IsSome(objects[call.location])
     /\ Unwrap(call.options.range).start < Unwrap(call.options.range).end
     /\ Unwrap(call.options.range).end <= Unwrap(objects[call.location]).size
     /\ response \in RemoteGetObject(objects, request))
    => /\ result.status = "ok"
       /\ result.payload.len =
              Unwrap(call.options.range).end - Unwrap(call.options.range).start
       /\ result.range = [start |-> Unwrap(call.options.range).start,
                          end |-> Unwrap(call.options.range).end]

(* C4: head and get_opts of one location, called one after the other with   *)
(* no change of the object between them and both successful, return        *)
(* ObjectMeta of equal size, entity tag and last_modified.                  *)
C4_HeadAndGetAgree ==
    [][(/\ {call.op, call'.op} = {"get_opts", "head"}
        /\ call.location = call'.location
        /\ objects' = objects
        /\ result.status = "ok" /\ result'.status = "ok")
       => /\ result'.meta.size = result.meta.size
          /\ result'.meta.e_tag = result.meta.e_tag
          /\ result'.meta.last_modified = result.meta.last_modified]_vars

(* C3: get_opts succeeds with the range [start,end) only when the remote's  *)
(* content-range is exactly bytes=<start>-<end> with numeric bounds; with   *)
(* any other string (no bytes= prefix, a bound that is no number, fewer or  *)
(* more than two bounds) it returns a parse error, and neither a range made *)
(* of part of the string nor an abort without an error.                     *)
AllDigits(s) == s /= <<>> /\ \A i \in 1..Len(s) : IsDigit(s[i])

ExactFormCuts(s) ==
    {i \in (Len(BytesEq) + 1)..Len(s) :
        /\ IsPrefix(BytesEq, s)
        /\ s[i] = "-"
        /\ AllDigits(SubSeq(s, Len(BytesEq) + 1, i - 1))
        /\ AllDigits(SubSeq(s, i + 1, Len(s)))}

C3_ContentRangeExactForm ==
    (/\ call.op = "get_opts"
     /\ response.status = "ok"
     /\ LastModified(response.last_modified).status = "ok"
     /\ IsSome(response.content_range))
    => LET s == Unwrap(response.content_range)
           cuts == ExactFormCuts(s)
       IN  IF cuts /= {}
           THEN LET i == CHOOSE c \in cuts : TRUE
                IN  /\ result.status = "ok"
                    /\ result.range =
                         [start |-> DigitsValue(SubSeq(s, Len(BytesEq) + 1, i - 1)),
                          end |-> DigitsValue(SubSeq(s, i + 1, Len(s)))]
           ELSE /\ result.status = "err"
                /\ result.source = ErrorParseInt

(* C7: list_with_delimiter puts every key under the prefix in exactly one   *)
(* of its two lists: a key with a further delimiter after the prefix is     *)
(* stood for by its one-level common prefix and is no object, a key without *)
(* one is an object; the keys a/b, a/c and d with no prefix give the common *)
(* prefixes {a/} and the objects {d}.                                       *)
SeqRange(q) == {q[i] : i \in 1..Len(q)}

C7_ListWithDelimiterPartitions ==
    (/\ call.op = "list_with_delimiter"
     /\ response \in RemoteListObjectsV2(objects, request))
    => /\ result.status = "ok"
       /\ LET dir == IF IsSome(call.prefix)
                     THEN Unwrap(call.prefix) \o <<Delimiter>> ELSE <<>>
              under == {k \in Keys : IsSome(objects[k]) /\ IsPrefix(dir, k)}
              locations == {m.location : m \in SeqRange(result.objects)}
              prefixes == SeqRange(result.common_prefixes)
          IN  /\ \A k \in under :
                    LET cut == DelimiterAfter(k, Len(dir), Delimiter)
                    IN  IF cut > 0
                        THEN SubSeq(k, 1, cut) \in prefixes /\ k \notin locations
                        ELSE k \in locations
                               /\ \A q \in prefixes : ~IsPrefix(q, k)
              /\ (under = Keys /\ ~IsSome(call.prefix))
                    => prefixes = {<<"a", "/">>} /\ locations = {KeyD}

(* C8: an answer of the remote that lacks a field the operation reads (an   *)
(* entry's key, time, size or entity tag, the prefix of a common prefix)    *)
(* makes the operation return an error, and never a success in which a      *)
(* default or an empty value, such as an empty common_prefixes, stands for  *)
(* the field.                                                               *)
LacksField(resp) ==
    \/ /\ IsSome(resp.contents)
       /\ \E i \in 1..Len(Unwrap(resp.contents)) :
              LET e == Unwrap(resp.contents)[i]
              IN  ~IsSome(e.key) \/ ~IsSome(e.last_modified)
                    \/ ~IsSome(e.size) \/ ~IsSome(e.e_tag)
    \/ /\ IsSome(resp.common_prefixes)
       /\ \E i \in 1..Len(Unwrap(resp.common_prefixes)) :
              ~IsSome(Unwrap(resp.common_prefixes)[i].prefix)

C8_MissingFieldIsError ==
    (/\ call.op = "list_with_delimiter"
     /\ response.status = "ok"
     /\ LacksField(response))
    => result.status = "err"

(* C9: the error an operation returns for a failure of its request or of    *)
(* its parsing is a generic store error of the store "S3" whose cause is    *)
(* the failure itself, and no replacement such as Unknown.                  *)
IsFaithfulError(e) ==
    /\ e.kind = "Generic"
    /\ e.store = "S3"
    /\ response.status = "err" => e.source = <<"Sdk", response.error>>

C9_ErrorsKeepStoreAndCause ==
    /\ result.status = "err" => IsFaithfulError(result)
    /\ result.status = "stream" =>
           \A i \in 1..Len(result.items) :
               result.items[i].status = "err" => IsFaithfulError(result.items[i])

(* C5: the remote completes an upload id at most once and never after its  *)
(* abort: an upload is completed only out of the open state and with a part *)
(* uploaded, a completed or aborted upload stays as it is, an abort that    *)
(* returns Ok has aborted the upload at the remote, and a shutdown of a     *)
(* session with no part uploaded, already completed or aborted returns an   *)
(* error and creates no object.                                             *)
C5_CompleteOnceNeverAfterAbort ==
    [][/\ \A u \in UploadIds :
              /\ uploads[u].state \in {"completed", "aborted"}
                    => uploads'[u].state = uploads[u].state
              /\ (uploads'[u].state = "completed" /\ uploads[u].state /= "completed")
                    => uploads[u].state = "open" /\ uploads[u].parts >= 1
       /\ (call'.op = "abort_multipart" /\ result'.status = "ok")
             => uploads'[call'.upload_id].state = "aborted"
       /\ (/\ call'.op = "shutdown"
           /\ ~(/\ uploads[call'.upload_id].state = "open"
                /\ uploads[call'.upload_id].parts >= 1))
             => result'.status = "err" /\ objects' = objects]_vars

\* The completion of a session whose parts were uploaded and which was then
\* aborted has been sent, and refused
C5_Witness ==
    /\ call.op = "shutdown"
    /\ request.op = "CompleteMultipartUpload" /\ request.parts >= 1
    /\ uploads[call.upload_id].state = "aborted"
    /\ result.status = "err" /\ result.source = <<"Sdk", "NoSuchUpload">>
    /\ ~IsSome(objects[KeyD])

(* C6: a session never has more than 16 part uploads in flight; no part is  *)
(* sent to the remote while 16 are in flight; and the completion request is *)
(* sent only when no part upload is in flight or waiting.                   *)
C6_AtMostSixteenInFlight ==
    [][/\ sink'.open => sink'.in_flight <= WriteMultiPartSlots
       /\ (sink.open /\ sink.in_flight >= WriteMultiPartSlots /\ sink'.open)
             => ~(sink'.upload_id = sink.upload_id
                    /\ sink'.submitted > sink.submitted)
       /\ (call'.op = "shutdown" /\ request'.op = "CompleteMultipartUpload")
             => sink.in_flight = 0 /\ sink.queued = 0]_vars

\* A part written while 16 uploads are in flight is waiting for a slot
C6_Witness ==
    /\ sink.open
    /\ sink.in_flight = WriteMultiPartSlots
    /\ sink.queued > 0
    /\ call.op = "write" /\ result = Pending

(* C10: whatever the locations and the bucket, copy_if_not_exists returns   *)
(* a NotSupported error, sends the remote no request and leaves the bucket  *)
(* and the uploads as they were.                                            *)
C10_CopyIfNotExistsNotSupported ==
    [][call'.op = "copy_if_not_exists" =>
          /\ result'.status = "err" /\ result'.kind = "NotSupported"
          /\ request' = request /\ response' = response
          /\ objects' = objects /\ uploads' = uploads]_vars

\* copy_if_not_exists has answered over a bucket that holds an object, after
\* some other operation has sent a request
C10_Witness ==
    /\ call.op = "copy_if_not_exists"
    /\ result.kind = "NotSupported"
    /\ request.op = "PutObject"
    /\ IsSome(objects[call.from]) /\ ~IsSome(objects[call.to])

====
